---- MODULE Spec2Model ----
(***************************************************************************)
(* Wolf CLI: the tool-calling orchestration loop (wolf/orchestrator.py),   *)
(* the tool executor (wolf/tool_executor.py) and the permission manager    *)
(* (wolf/permission_manager.py).                                           *)
(*                                                                         *)
(* Text is modelled as a sequence of one-character strings, so that        *)
(* str.strip, str.lower and the regular expressions of the allow and deny  *)
(* lists are computed on the characters and not assumed.                   *)
(***************************************************************************)
EXTENDS Integers, Sequences, FiniteSets, TLC

(***************************************************************************)
(* Bounds of the model                                                     *)
(***************************************************************************)
\* largest configured max_tool_iterations explored (0..MaxIterations)
MaxIterations == 2
\* largest number of requests in one assistant turn
MaxBatch == 2
\* largest number of requests the model makes in one run
MaxRequests == 2

(***************************************************************************)
(* Text helpers                                                            *)
(***************************************************************************)
\* str.lower on the letters the model uses
LowerMap == [Y |-> "y", E |-> "e", S |-> "s", N |-> "n", O |-> "o",
             M |-> "m", K |-> "k", F |-> "f", L |-> "l"]

Lower(c) == IF c \in DOMAIN LowerMap THEN LowerMap[c] ELSE c

StrLower(s) == [i \in 1..Len(s) |-> Lower(s[i])]

\* characters str.strip removes, and the characters \s matches
Whitespace == {" ", "\t", "\n"}

RECURSIVE LStrip(_)
LStrip(s) == IF s # <<>> /\ Head(s) \in Whitespace THEN LStrip(Tail(s)) ELSE s

RECURSIVE RStrip(_)
RStrip(s) == IF s # <<>> /\ s[Len(s)] \in Whitespace
             THEN RStrip(SubSeq(s, 1, Len(s) - 1)) ELSE s

Strip(s) == RStrip(LStrip(s))

\* characters the regular-expression class \w matches
WordChars == {"y", "e", "s", "n", "o", "m", "k", "f", "l", "i", "d", "x",
              "Y", "E", "S", "N", "O", "M", "K", "F", "L"}

\* \b between position i and i+1 of s (i in 0..Len(s))
WordBoundary(s, i) ==
    LET before == i >= 1 /\ s[i] \in WordChars
        after  == i < Len(s) /\ s[i + 1] \in WordChars
    IN  before # after

\* (?i) literal w found at offset i (0-based) of s
LiteralAt(s, w, i) ==
    /\ i + Len(w) <= Len(s)
    /\ StrLower(SubSeq(s, i + 1, i + Len(w))) = w

\* re.search of (?i)\bw\b
SearchWord(s, w) ==
    \E i \in 0..Len(s) :
        /\ LiteralAt(s, w, i)
        /\ WordBoundary(s, i)
        /\ WordBoundary(s, i + Len(w))

\* re.search of (?i)^(w1|w2|...)\b
SearchPrefixWord(s, ws) ==
    \E w \in ws : LiteralAt(s, w, 0) /\ WordBoundary(s, Len(w))

(***************************************************************************)
(* permission_manager.py: trust levels, risk levels, pattern lists         *)
(***************************************************************************)
TrustLevel == {"safe-only", "interactive", "auto"}

RiskLevel == {"safe", "modifying", "destructive"}

\* the deny-list patterns that a command of the model can match
\*   (?i)\bmkfs\b
LINUX_DENYLIST == << <<"m", "k", "f", "s">> >>

\* the allow-list patterns that a command of the model can match
\*   (?i)^(ls|dir)\b
LINUX_ALLOWLIST == << {<<"l", "s">>, <<"d", "i", "r">>} >>

MatchesDenylist(command) ==
    \E p \in 1..Len(LINUX_DENYLIST) : SearchWord(command, LINUX_DENYLIST[p])

MatchesAllowlist(command) ==
    \E p \in 1..Len(LINUX_ALLOWLIST) : SearchPrefixWord(command, LINUX_ALLOWLIST[p])

\* check_command with the allow list tested before the deny list
check_command_allowlist_first(command) ==
    IF MatchesAllowlist(command)
    THEN [is_allowed |-> TRUE, reason |-> "Command matches allowlist"]
    ELSE IF MatchesDenylist(command)
    THEN [is_allowed |-> FALSE, reason |-> "Command matches denylist pattern"]
    ELSE [is_allowed |-> TRUE, reason |-> "Command not in denylist"]

\* PermissionManager.check_command: (is_allowed, reason)
check_command(command) ==
    IF MatchesDenylist(command)
    THEN [is_allowed |-> FALSE, reason |-> "Command matches denylist pattern"]
    ELSE IF MatchesAllowlist(command)
    THEN [is_allowed |-> TRUE, reason |-> "Command matches allowlist"]
    ELSE [is_allowed |-> TRUE, reason |-> "Command not in denylist"]

\* requires_confirmation asking for the yes/no prompt for every unsafe tool
requires_confirmation_yn_for_destructive(trust, risk_level) ==
    IF trust = "safe-only" /\ risk_level # "safe"
    THEN [requires |-> TRUE, conf_type |-> "block"]
    ELSE IF trust = "auto" \/ risk_level = "safe"
    THEN [requires |-> FALSE, conf_type |-> "none"]
    ELSE [requires |-> TRUE, conf_type |-> "yn"]

\* PermissionManager.requires_confirmation: (requires_confirmation, type)
requires_confirmation(trust, risk_level) ==
    IF trust = "safe-only" /\ risk_level # "safe"
    THEN [requires |-> TRUE, conf_type |-> "block"]
    ELSE IF trust = "auto"
    THEN [requires |-> FALSE, conf_type |-> "none"]
    ELSE IF risk_level = "safe"
    THEN [requires |-> FALSE, conf_type |-> "none"]
    ELSE IF risk_level = "modifying"
    THEN [requires |-> TRUE, conf_type |-> "yn"]
    ELSE IF risk_level = "destructive"
    THEN [requires |-> TRUE, conf_type |-> "yes"]
    ELSE [requires |-> FALSE, conf_type |-> "none"]

\* YesValidator.validate: TRUE when no ValidationError is raised
YesValidator(text) ==
    Strip(text) \in {<<"Y", "E", "S">>, <<"y", "e", "s">>, <<"Y", "e", "s">>}

\* the 'yn' branch refusing only an explicit negative
YnResponse_unless_negative(text) ==
    Strip(StrLower(text)) \notin {<<"n">>, <<"n", "o">>}

\* the return expression of the 'yn' branch of prompt_confirmation
YnResponse(text) ==
    Strip(StrLower(text)) \in {<<"y">>, <<"y", "e", "s">>, <<>>}

\* the return expression of the 'yes' branch of prompt_confirmation
YesResponse(text) ==
    Strip(text) \in {<<"Y", "E", "S">>, <<"y", "e", "s">>, <<"Y", "e", "s">>}

\* the except clause falling back to the default answer of the prompt
ConfirmationOnAbort_default_answer(conf_type) == conf_type = "yn"

\* the value prompt_confirmation returns from its except clause
\* (KeyboardInterrupt, EOFError)
ConfirmationOnAbort(conf_type) == FALSE

(***************************************************************************)
(* tool_registry.py: the descriptors the model's requests can name         *)
(***************************************************************************)
ParamKeys == {"command", "path"}

Absent == [t |-> "absent", v |-> <<>>]

Str(s) == [t |-> "str", v |-> s]

\* a JSON value that is not a string (a number)
Num(s) == [t |-> "int", v |-> s]

\* a mapping is a function on ParamKeys; a key it lacks maps to Absent
NoParams == [k \in ParamKeys |-> Absent]

Params(command, path) == [k \in ParamKeys |-> IF k = "command" THEN command ELSE path]

\* ToolRegistry._register_core_tools: risk level and parameter schema
Registry ==
    [list_directory  |-> [risk_level |-> "safe",        required |-> {}],
     delete_file     |-> [risk_level |-> "destructive", required |-> {"path"}],
     execute_command |-> [risk_level |-> "modifying",   required |-> {"command"}],
     get_system_info |-> [risk_level |-> "safe",        required |-> {}]]

\* ToolRegistry.get: TRUE when a descriptor is registered under the name
registry_has(name) == name \in DOMAIN Registry

\* the parameters each descriptor declares under "properties"
Properties(name) ==
    CASE name = "execute_command" -> {"command"}
      [] name = "get_system_info" -> {}
      [] OTHER -> {"path"}

\* validate_tool_params (jsonschema.validate): required keys are present and
\* every declared property that is present is a string; other keys pass
validate_tool_params(params, name) ==
    IF \E k \in Registry[name].required : params[k].t = "absent"
    THEN [is_valid |-> FALSE, error |-> "is a required property"]
    ELSE IF \E k \in Properties(name) : params[k].t \notin {"absent", "str"}
    THEN [is_valid |-> FALSE, error |-> "is not of type 'string'"]
    ELSE [is_valid |-> TRUE, error |-> ""]

\* a ToolSchema object; handler = "None" until a handler is bound
ToolSchema(name, description, parameters, risk_level, handler) ==
    [name |-> name, description |-> description, parameters |-> parameters,
     risk_level |-> risk_level, handler |-> handler]

\* the descriptor of a core tool as _register_core_tools builds it
CoreTool(name) ==
    ToolSchema(name, "core", [properties |-> Properties(name),
                              required |-> Registry[name].required],
               Registry[name].risk_level, "None")

\* ToolRegistry._tools after construction, in insertion order
CoreTools == << CoreTool("delete_file"), CoreTool("list_directory"),
                CoreTool("execute_command"), CoreTool("get_system_info") >>

\* descriptors a caller can register later: a replacement of a core tool and
\* a new tool, each in two versions
RegisteredLater ==
    { ToolSchema(n, d, [properties |-> {"path"}, required |-> {}], "safe", "plugin") :
          n \in {"list_directory", "plugin_tool"}, d \in {"v1", "v2"} }

\* what get returns for a name that is not registered
NoTool == ToolSchema("", "", [properties |-> {}, required |-> {}], "safe", "None")

\* position of the name in the dictionary, 0 when it is not a key
IndexOf(tools, name) ==
    IF \E i \in 1..Len(tools) : tools[i].name = name
    THEN CHOOSE i \in 1..Len(tools) : tools[i].name = name
    ELSE 0

\* ToolRegistry.register: `self._tools[tool.name] = tool`; an existing key
\* keeps its position
register(tools, tool) ==
    IF IndexOf(tools, tool.name) # 0
    THEN [tools EXCEPT ![IndexOf(tools, tool.name)] = tool]
    ELSE Append(tools, tool)

\* ToolRegistry.get
get(tools, name) ==
    IF IndexOf(tools, name) # 0 THEN tools[IndexOf(tools, name)] ELSE NoTool

\* an export entry that also tells whether the tool has a handler
to_openai_tool_with_handler(tool) ==
    [type |-> "function", name |-> tool.name, description |-> tool.description,
     parameters |-> tool.parameters, handler |-> tool.handler]

\* ToolSchema.to_openai_tool
to_openai_tool(tool) ==
    [type |-> "function", name |-> tool.name, description |-> tool.description,
     parameters |-> tool.parameters]

\* ToolRegistry.export_openai_tools
export_openai_tools(tools) == [i \in 1..Len(tools) |-> to_openai_tool(tools[i])]

\* ToolExecutor._bind_handlers: the handler of every core tool is set on the
\* descriptor the registry holds under its name
bind_handlers(tools) ==
    [i \in 1..Len(tools) |->
        IF tools[i].name \in DOMAIN Registry
        THEN [tools[i] EXCEPT !.handler = "bound"] ELSE tools[i]]

(***************************************************************************)
(* Arguments of a request: a mapping, a string to decode, a list, or None  *)
(***************************************************************************)
ArgDict(p) == [tag |-> "dict", dict |-> p, raw |-> ""]

ArgStr(text) == [tag |-> "str", dict |-> NoParams, raw |-> text]

ArgList == [tag |-> "list", dict |-> NoParams, raw |-> ""]

ArgNone == [tag |-> "none", dict |-> NoParams, raw |-> ""]

DotPath == Str(<<".">>)

\* json.loads on the texts the model's requests carry
\*   ok = FALSE: json.JSONDecodeError
JsonLoads(text) ==
    CASE text = "{\"path\": \".\"}" ->
            [ok |-> TRUE, value |-> ArgDict(Params(Absent, DotPath))]
      [] text = "{}"      -> [ok |-> TRUE, value |-> ArgDict(NoParams)]
      [] text = "[1]"     -> [ok |-> TRUE, value |-> ArgList]
      [] text = "\"{bad\"" -> [ok |-> TRUE, value |-> ArgStr("{bad")]
      [] OTHER            -> [ok |-> FALSE, value |-> ArgNone]

\* str.strip() is empty
Blank(text) == text \in {"", " "}

\* Python truthiness of an arguments value (used by `arguments or {}`)
Truthy(arg) ==
    CASE arg.tag = "dict" -> \E k \in ParamKeys : arg.dict[k].t # "absent"
      [] arg.tag = "str"  -> arg.raw # ""
      [] arg.tag = "list" -> TRUE
      [] OTHER            -> FALSE

\* Orchestrator.run, the argument handling before execute is called
OrchestratorArguments(arguments) ==
    LET parsed ==
            IF arguments.tag = "str"
            THEN IF Blank(arguments.raw) THEN ArgDict(NoParams)
                 ELSE IF JsonLoads(arguments.raw).ok THEN JsonLoads(arguments.raw).value
                 ELSE ArgDict(NoParams)
            ELSE arguments
    IN  IF Truthy(parsed) THEN parsed ELSE ArgDict(NoParams)

(***************************************************************************)
(* What the language model, the user at the prompt and the tool handlers   *)
(* can do: the inputs of the actions                                       *)
(***************************************************************************)
\* a ToolCallRequest; id = "" and name = "" stand for None
Call(id, name, arguments) == [id |-> id, name |-> name, arguments |-> arguments]

\* the character U+0000, which a JSON string can carry as \u0000
NUL == "\\x00"

NotNul(c) == c # NUL

\* utils.validation.sanitize_command
sanitize_command(command) == Strip(SelectSeq(command, NotNul))

\* execute_shell_command: the text handed to the shell for the parameters
ShellCommand(params) == sanitize_command(params["command"].v)

\* command texts: allow-listed, in neither list, deny-listed, in both lists,
\* and deny-listed once its NUL character is removed
Commands == { <<"l", "s">>,
              <<"i", "d">>,
              <<"m", "k", "f", "s">>,
              <<"l", "s", " ", "m", "k", "f", "s">>,
              <<"m", "k", NUL, "f", "s">> }

ExecuteCommand(c) == Call("c1", "execute_command", ArgDict(Params(Str(c), Absent)))

\* In one run the model draws its requests from one of these sets:
\*   shell_listed:   execute_command, allow-listed text and deny-listed text
\*   shell_unlisted: execute_command, text in neither list and text in both
\*   shell_nul:      execute_command, text with a NUL character
\*   risk:           a safe, a modifying and a destructive tool
\*   unknown:        an unregistered tool, and a request that passes all gates
\*   malformed:      a request without a name, and one without its required
\*                   parameter
\*   undecodable:    arguments that decode to a string that is not JSON, and
\*                   arguments that decode to a list
\*   mistyped:       an unregistered tool with undecodable arguments, and a
\*                   parameter that is not a string
\*   system:         the tool whose handler reports its failure under "error"
\*                   only
Vocabulary ==
    [shell_listed   |-> { ExecuteCommand(<<"l", "s">>),
                          ExecuteCommand(<<"m", "k", "f", "s">>) },
     shell_unlisted |-> { ExecuteCommand(<<"i", "d">>),
                          ExecuteCommand(<<"l", "s", " ", "m", "k", "f", "s">>) },
     shell_nul |-> { ExecuteCommand(c) : c \in
                         { d \in Commands : \E i \in 1..Len(d) : d[i] = NUL } },
     risk      |-> { Call("c1", "list_directory", ArgDict(Params(Absent, DotPath))),
                     Call("c1", "delete_file", ArgDict(Params(Absent, Str(<<"f">>)))),
                     ExecuteCommand(<<"i", "d">>) },
     unknown   |-> { Call("", "no_such_tool", ArgNone),
                     Call("", "list_directory", ArgDict(Params(Absent, DotPath))) },
     malformed |-> { Call("c1", "", ArgNone),
                     Call("c1", "delete_file", ArgNone) },
     undecodable |-> { Call("c1", "delete_file", ArgStr("\"{bad\"")),
                       Call("c2", "delete_file", ArgStr("[1]")) },
     mistyped  |-> { Call("c1", "no_such_tool", ArgStr("\"{bad\"")),
                     Call("c2", "execute_command",
                          ArgDict(Params(Num(<<"1">>), Absent))) },
     system    |-> { Call("c1", "get_system_info", ArgDict(NoParams)) }]

RECURSIVE SeqsUpTo(_, _)
SeqsUpTo(S, n) ==
    IF n = 0 THEN {<<>>}
    ELSE LET shorter == SeqsUpTo(S, n - 1)
         IN  shorter \cup { Append(q, x) : q \in shorter, x \in S }

\* the adapter's return value: {"error": ...}, {"choices": []}, or one choice
\* whose message has content, tool_calls and function_call; for an error,
\* content holds the error text
Response(kind, content, calls, fc) ==
    [kind |-> kind, content |-> content, tool_calls |-> calls, function_call |-> fc]

\* contents of a final answer, and error texts of the adapter
Contents == {"", "answer"}

ErrorTexts == {"Connection refused"}

\* the choices of --provider
Providers == {"ollama", "openrouter"}

\* a choice whose message has under tool_calls an entry that is not a mapping
MalformedResponse == Response("malformed", "", <<>>, <<>>)

Responses(calls) ==
    { Response("error", e, <<>>, <<>>) : e \in ErrorTexts }
    \cup { Response("no_choices", "", <<>>, <<>>) }
    \cup { Response("message", c, <<>>, <<>>) : c \in Contents }
    \cup { Response("message", "", q, <<>>) : q \in SeqsUpTo(calls, MaxBatch) \ {<<>>} }
    \cup { Response("message", "", <<>>, <<Call("", "list_directory", ArgStr("{bad"))>>) }
    \cup { MalformedResponse }

\* texts the user can submit at a prompt
PromptInputs ==
    { <<>>, <<"y">>, <<"Y">>, <<"n">>, <<"n", "o">>, <<"o", "k">>,
      <<"y", "e", "s">>, <<"Y", "E", "S">>, <<"Y", "e", "s">>, <<"y", "E", "s">>,
      <<" ", "Y", "E", "S", " ">> }

\* a handler's return value, as far as execute reads it
Payload(has_ok, ok, has_success, success, error) ==
    [has_ok |-> has_ok, ok |-> ok, has_success |-> has_success,
     success |-> success, error |-> error]

NoPayload == Payload(FALSE, FALSE, FALSE, FALSE, "None")

Outcome(kind, payload) == [kind |-> kind, payload |-> payload]

\* shell_client.execute_shell_command returns "success" and no "ok";
\* shell_client.get_system_info returns neither, and "error" when it failed;
\* the file operations return "ok", with "error" when it is False
HandlerOutcomes(name) ==
    IF name = "execute_command"
    THEN { Outcome("return", Payload(FALSE, FALSE, TRUE, TRUE, "None")),
           Outcome("return", Payload(FALSE, FALSE, TRUE, FALSE, "None")),
           Outcome("interrupt", NoPayload) }
    ELSE IF name = "get_system_info"
    THEN { Outcome("return", Payload(FALSE, FALSE, FALSE, FALSE, "None")),
           Outcome("return", Payload(FALSE, FALSE, FALSE, FALSE, "psutil error")),
           Outcome("interrupt", NoPayload) }
    ELSE IF name = "delete_file"
    THEN { Outcome("return", Payload(TRUE, TRUE, FALSE, FALSE, "None")),
           Outcome("return", Payload(TRUE, FALSE, FALSE, FALSE, "File not found")),
           Outcome("interrupt", NoPayload) }
    ELSE { Outcome("return", Payload(TRUE, TRUE, FALSE, FALSE, "None")),
           Outcome("raise", NoPayload),
           Outcome("interrupt", NoPayload) }

(***************************************************************************)
(* State                                                                   *)
(***************************************************************************)
VARIABLES
    entry,                \* who calls run: "wolf", "wolfw" (cli_wrapper) or "api"
    vocab,                \* the set of requests the model draws from in this run
    trust_level,          \* PermissionManager.trust_level
    max_tool_iterations,  \* Orchestrator.max_tool_iterations
    system_prompt,        \* config has a system prompt
    provider,             \* Orchestrator.provider
    images,               \* run is called with images that the adapter can encode
    registry_tools,       \* ToolRegistry._tools
    tool_schemas,         \* value of the latest export_openai_tools call
    registered,           \* register was called since that export
    looked_up,            \* value of the latest get call
    pc,                   \* position of the run
    iteration,            \* loop variable of run
    messages,             \* the conversation
    tool_calls,           \* requests of the current assistant turn
    idx,                  \* index of the request being processed
    attempt,              \* the execute call in progress or last finished
    result,               \* value returned by run
    raised,               \* exception that left run
    exit_status,          \* sys.exit status of the command
    cancelled,            \* a KeyboardInterrupt was delivered
    llm_calls,            \* number of calls of the model adapter
    handler_calls,        \* number of handler invocations
    requested             \* number of requests the model made so far

vars == <<entry, vocab, trust_level, max_tool_iterations, system_prompt, provider, images,
          registry_tools, tool_schemas, registered, looked_up, pc,
          iteration,
          messages, tool_calls, idx, attempt, result, raised, exit_status,
          cancelled, llm_calls, handler_calls, requested>>

(***************************************************************************)
(* Messages and result envelopes                                           *)
(***************************************************************************)
\* the result dictionary of ToolExecutor.execute; error = "None" is None,
\* has_input / has_result tell whether the key is present; result is the
\* dictionary under "result" (NoPayload without the key)
Envelope(ok, tool, has_input, has_result, error) ==
    [ok |-> ok, tool |-> tool, has_input |-> has_input,
     has_result |-> has_result, error |-> error, result |-> NoPayload]

NoEnvelope == Envelope(FALSE, "", FALSE, FALSE, "")

\* id and name of a request, as kept in the raw assistant message
Ref(call) == [id |-> call.id, name |-> call.name]

Refs(calls) == [i \in 1..Len(calls) |-> Ref(calls[i])]

\* a message of the conversation; images is set by the adapter
Msg(role, content, name, tool_call_id, calls, fc, env) ==
    [role |-> role, content |-> content, name |-> name,
     tool_call_id |-> tool_call_id, tool_calls |-> calls,
     function_call |-> fc, env |-> env, images |-> FALSE]

SystemMsg == Msg("system", "system_prompt", "", "", <<>>, <<>>, NoEnvelope)

\* Orchestrator._format_user_message
UserMsg == Msg("user", "prompt", "", "", <<>>, <<>>, NoEnvelope)

\* the conversation run starts with
InitialMessages == (IF system_prompt THEN <<SystemMsg>> ELSE <<>>) \o <<UserMsg>>

\* the assistant message stored with its content only
AssistantMsg_content_only(response) ==
    Msg("assistant", response.content, "", "", <<>>, <<>>, NoEnvelope)

\* the raw assistant message of a response that requests tools
AssistantMsg(response) ==
    Msg("assistant", response.content, "", "", Refs(response.tool_calls),
        Refs(response.function_call), NoEnvelope)

FinalMsg(text) == Msg("assistant", text, "", "", <<>>, <<>>, NoEnvelope)

\* the tool-role message; tool_call_id = "" when the request had no id
ToolMsg(call, env) == Msg("tool", "", call.name, call.id, <<>>, <<>>, env)

\* OllamaAdapter.chat with encoded images: the last user message of the
\* caller's list gets the key "images"; without a user message one is appended
AttachImages(msgs) ==
    IF \E i \in 1..Len(msgs) : msgs[i].role = "user"
    THEN LET last == CHOOSE i \in 1..Len(msgs) :
                         /\ msgs[i].role = "user"
                         /\ \A j \in (i + 1)..Len(msgs) : msgs[j].role # "user"
         IN  [msgs EXCEPT ![last].images = TRUE]
    ELSE Append(msgs, [Msg("user", "", "", "", <<>>, <<>>, NoEnvelope)
                          EXCEPT !.images = TRUE])

\* a return dictionary that has the key "error" on success too
RunResult_error_always(ok, text, error) ==
    [ok |-> ok, text |-> text, error |-> error,
     keys |-> {"ok", "error", "messages"} \cup (IF ok THEN {"text"} ELSE {})]

\* the dictionary run returns, with the keys it has: every return statement
\* has "ok" and "messages", those with ok True have "text", the others
\* "error". The value under "messages" is the list of the conversation itself.
RunResult(ok, text, error) ==
    [ok |-> ok, text |-> text, error |-> error,
     keys |-> {"ok", "messages"} \cup (IF ok THEN {"text"} ELSE {"error"})]

\* run has not returned
NoResult == [ok |-> FALSE, text |-> "", error |-> "", keys |-> {}]

\* the extraction taking the legacy call first
extract_tool_calls_legacy_first(response) ==
    IF response.function_call # <<>>
    THEN << Call("", response.function_call[1].name, response.function_call[1].arguments) >>
    ELSE response.tool_calls

\* Orchestrator._extract_tool_calls; <<>> stands for a key that is absent or
\* whose value is falsy (None, an empty list, an empty mapping)
extract_tool_calls(response) ==
    IF response.tool_calls # <<>>
    THEN response.tool_calls
    ELSE IF response.function_call # <<>>
    THEN << Call("", response.function_call[1].name, response.function_call[1].arguments) >>
    ELSE <<>>

(***************************************************************************)
(* The execute call in progress                                            *)
(***************************************************************************)
\* stage: "none", "unknown_tool", "bad_json", "not_dict", "invalid", "prompt",
\*        "denied", "returned", "raised", "interrupted"
\* conf_type: the confirmation type check_and_confirm arrived at ("n/a" when
\*        the permission check was not reached)
\* answered: "no" (no prompt or still open), "text", "interrupt", "eof"
\* answer: the text last submitted at the prompt, kept until execute goes on
\* rejected: the validator refused that text and the prompt is still open
\* allowed: the value check_and_confirm returned
\* invoked: the handler was called
Attempt(tool, params, stage, conf_type, answered, answer, rejected, allowed, invoked) ==
    [tool |-> tool, params |-> params, stage |-> stage, conf_type |-> conf_type,
     answered |-> answered, answer |-> answer, rejected |-> rejected,
     allowed |-> allowed, invoked |-> invoked]

NoAttempt == Attempt("", NoParams, "none", "n/a", "no", <<>>, FALSE, FALSE, FALSE)

\* check_and_confirm letting an allow-listed command through unasked
check_and_confirm_allowlist_bypass(trust, tool_name, risk_level, params) ==
    IF /\ tool_name = "execute_command"
       /\ params["command"].t # "absent"
       /\ ~check_command(params["command"].v).is_allowed
    THEN "yes"
    ELSE IF /\ tool_name = "execute_command"
            /\ params["command"].t # "absent"
            /\ MatchesAllowlist(params["command"].v)
    THEN "none"
    ELSE LET rc == requires_confirmation(trust, risk_level)
         IN  IF ~rc.requires THEN "none" ELSE rc.conf_type

\* check_and_confirm remembering that the tool was approved earlier in the run
check_and_confirm_remembered(trust, tool_name, risk_level, params) ==
    IF \E i \in 1..Len(messages) :
           /\ messages[i].role = "tool"
           /\ messages[i].name = tool_name
           /\ messages[i].env.has_result
    THEN "none"
    ELSE IF /\ tool_name = "execute_command"
            /\ params["command"].t # "absent"
            /\ ~check_command(params["command"].v).is_allowed
    THEN "yes"
    ELSE LET rc == requires_confirmation(trust, risk_level)
         IN  IF ~rc.requires THEN "none" ELSE rc.conf_type

\* PermissionManager.check_and_confirm up to the prompt: the confirmation
\* type handed to prompt_confirmation, "none" when it returns True at once
check_and_confirm(trust, tool_name, risk_level, params) ==
    IF /\ tool_name = "execute_command"
       /\ params["command"].t # "absent"
       /\ ~check_command(params["command"].v).is_allowed
    THEN "yes"
    ELSE LET rc == requires_confirmation(trust, risk_level)
         IN  IF ~rc.requires THEN "none" ELSE rc.conf_type

\* ToolExecutor.execute, the success branch: the handler's dictionary gets
\* the key "ok" when it has none, and is wrapped into the envelope
SuccessEnvelope(tool, payload) ==
    LET stored == IF payload.has_ok THEN payload
                  ELSE [payload EXCEPT !.has_ok = TRUE,
                                       !.ok = IF payload.has_success
                                              THEN payload.success ELSE TRUE]
    IN  [Envelope(stored.ok, tool, TRUE, TRUE, stored.error) EXCEPT !.result = stored]

\* the gates of execute without the schema validation
GateEnvelope_without_validation(tool_name, args) ==
    IF ~registry_has(tool_name)
    THEN Envelope(FALSE, tool_name, FALSE, FALSE, "Unknown tool")
    ELSE IF args.tag = "str" /\ ~Blank(args.raw) /\ ~JsonLoads(args.raw).ok
    THEN Envelope(FALSE, tool_name, FALSE, FALSE, "Invalid JSON arguments")
    ELSE LET decoded == IF args.tag # "str" THEN args
                        ELSE IF Blank(args.raw) THEN ArgDict(NoParams)
                        ELSE JsonLoads(args.raw).value
         IN  IF decoded.tag # "dict"
             THEN Envelope(FALSE, tool_name, FALSE, FALSE, "Parameters must be a dict")
             ELSE NoEnvelope

\* ToolExecutor.execute, the gates before the permission check:
\* the error envelope, or NoEnvelope when all of them pass
GateEnvelope(tool_name, args) ==
    IF ~registry_has(tool_name)
    THEN Envelope(FALSE, tool_name, FALSE, FALSE, "Unknown tool")
    ELSE IF args.tag = "str" /\ ~Blank(args.raw) /\ ~JsonLoads(args.raw).ok
    THEN Envelope(FALSE, tool_name, FALSE, FALSE, "Invalid JSON arguments")
    ELSE LET decoded == IF args.tag # "str" THEN args
                        ELSE IF Blank(args.raw) THEN ArgDict(NoParams)
                        ELSE JsonLoads(args.raw).value
         IN  IF decoded.tag # "dict"
             THEN Envelope(FALSE, tool_name, FALSE, FALSE, "Parameters must be a dict")
             ELSE IF ~validate_tool_params(decoded.dict, tool_name).is_valid
             THEN Envelope(FALSE, tool_name, TRUE, FALSE, "Invalid parameters")
             ELSE NoEnvelope

\* the mapping execute validated (when GateEnvelope is NoEnvelope)
DecodedParams(args) ==
    IF args.tag = "dict" THEN args.dict
    ELSE IF args.tag = "str" /\ ~Blank(args.raw) /\ JsonLoads(args.raw).ok
    THEN JsonLoads(args.raw).value.dict
    ELSE NoParams

GateStage(env) ==
    CASE env.error = "Unknown tool" -> "unknown_tool"
      [] env.error = "Invalid JSON arguments" -> "bad_json"
      [] env.error = "Parameters must be a dict" -> "not_dict"
      [] OTHER -> "invalid"

DeniedEnvelope(tool) == Envelope(FALSE, tool, TRUE, FALSE, "Permission denied by user")

\* the except clause leaving the error of the envelope unset
RaisedEnvelope_without_message(tool) == Envelope(FALSE, tool, TRUE, FALSE, "None")

\* execute, the except clause: error is str(e) of the handler's exception
RaisedEnvelope(tool) == Envelope(FALSE, tool, TRUE, FALSE, "handler error")

(***************************************************************************)
(* Control flow of Orchestrator.run                                        *)
(***************************************************************************)
Control(p, i, it, calls, res, exc) ==
    [pc |-> p, idx |-> i, iteration |-> it, tool_calls |-> calls,
     result |-> res, raised |-> exc]

SetControl(c) ==
    /\ pc' = c.pc
    /\ idx' = c.idx
    /\ iteration' = c.iteration
    /\ tool_calls' = c.tool_calls
    /\ result' = c.result
    /\ raised' = c.raised

\* run returns
Return(res) == Control("Returned", 0, iteration, <<>>, res, "")

\* an exception leaves run (it is not an Exception the loop catches)
Raise(exc) == Control("Raised", 0, iteration, <<>>, NoResult, exc)

\* the return after the for loop
MaxIterationsResult ==
    RunResult(FALSE, "", "Max tool iterations (" \o ToString(max_tool_iterations)
                             \o ") reached without final answer")

\* the head of `for iteration in range(self.max_tool_iterations)`
LoopHead(it) ==
    IF it < max_tool_iterations
    THEN Control("AwaitModel", 0, it, <<>>, NoResult, "")
    ELSE Control("Returned", 0, it, <<>>, MaxIterationsResult, "")

\* the loop body returning to the model after the first request of a batch
NextCall_after_first_request == LoopHead(iteration + 1)

\* the end of the body of `for call in tool_calls`
NextCall ==
    IF idx < Len(tool_calls)
    THEN Control("ProcessToolCalls", idx + 1, iteration, tool_calls, NoResult, "")
    ELSE LoopHead(iteration + 1)

\* `"Unknown tool" in result.get("error", "")` with error None raises
\* TypeError, which the except clause of the loop turns into a return
UnknownToolCheckFaults(env) == ~env.ok /\ env.error = "None"

TypeErrorResult == RunResult(FALSE, "", "argument of type 'NoneType' is not iterable")

\* `call.get` on an entry of tool_calls that is not a mapping raises
\* AttributeError in _extract_tool_calls
ExtractFaults(response) == response.kind = "malformed"

AttributeErrorResult == RunResult(FALSE, "", "'str' object has no attribute 'get'")

\* _call_llm raises ValueError for a provider other than ollama
CallFaults == provider # "ollama"

ValueErrorResult == RunResult(FALSE, "", "Unsupported provider: " \o provider)

\* the except clause letting the exception leave run
ExceptClause_reraises(res) == Raise("Exception")

\* the except clause of the loop body: run returns ok = False with str(e)
ExceptClause(res) == Return(res)

\* the loop body leaving the batch after an unknown tool
AppendToolResult_break_on_unknown(call, env, att) ==
    /\ messages' = Append(messages, ToolMsg(call, env))
    /\ attempt' = att
    /\ SetControl(IF UnknownToolCheckFaults(env) THEN ExceptClause(TypeErrorResult)
                  ELSE IF env.error = "Unknown tool" THEN LoopHead(iteration + 1)
                  ELSE NextCall)
    /\ UNCHANGED cancelled

\* run, from the return of execute to the end of the loop body
AppendToolResult(call, env, att) ==
    /\ messages' = Append(messages, ToolMsg(call, env))
    /\ attempt' = att
    /\ SetControl(IF UnknownToolCheckFaults(env) THEN ExceptClause(TypeErrorResult)
                  ELSE NextCall)
    /\ UNCHANGED cancelled

\* execute, from `result = tool.handler(**params)` on
InvokeHandler(call, params, att) ==
    \E outcome \in HandlerOutcomes(call.name) :
    /\ handler_calls' = handler_calls + 1
    /\ CASE outcome.kind = "return" ->
                AppendToolResult(call, SuccessEnvelope(call.name, outcome.payload),
                                 [att EXCEPT !.stage = "returned", !.invoked = TRUE])
         [] outcome.kind = "raise" ->
                AppendToolResult(call, RaisedEnvelope(call.name),
                                 [att EXCEPT !.stage = "raised", !.invoked = TRUE])
         [] OTHER ->
                /\ attempt' = [att EXCEPT !.stage = "interrupted", !.invoked = TRUE]
                /\ cancelled' = TRUE
                /\ SetControl(Raise("KeyboardInterrupt"))
                /\ UNCHANGED messages

\* execute returns the permission-denied envelope
Deny(call, att) ==
    /\ AppendToolResult(call, DeniedEnvelope(call.name), [att EXCEPT !.stage = "denied"])
    /\ UNCHANGED handler_calls

\* the registry as the commands leave it: no tool is registered during a run
RegistryState == <<registry_tools, tool_schemas, registered, looked_up>>

Config == <<entry, vocab, trust_level, max_tool_iterations, system_prompt, provider, images,
            RegistryState>>

(***************************************************************************)
(* Actions                                                                 *)
(***************************************************************************)
Init ==
    /\ entry \in {"wolf", "wolfw", "api"}
    /\ vocab \in DOMAIN Vocabulary
    /\ trust_level \in TrustLevel
    /\ entry = "wolfw" => trust_level = "interactive"
    /\ max_tool_iterations \in 0..MaxIterations
    /\ system_prompt \in BOOLEAN
    /\ entry = "wolfw" => system_prompt
    \* runs with images are explored for callers of run other than the
    \* commands, with the requests of the unknown vocabulary
    /\ images \in BOOLEAN
    /\ images => (entry = "api" /\ vocab = "unknown")
    \* the provider without an adapter is explored for the same callers
    /\ provider \in Providers
    /\ provider # "ollama" => (entry = "api" /\ vocab = "unknown" /\ ~images)
    \* ToolExecutor.__init__ bound the handlers, Orchestrator.__init__ exported
    /\ registry_tools = bind_handlers(CoreTools)
    /\ tool_schemas = export_openai_tools(registry_tools)
    /\ registered = FALSE
    /\ looked_up = NoTool
    /\ pc = "Start"
    /\ iteration = 0
    /\ messages = <<>>
    /\ tool_calls = <<>>
    /\ idx = 0
    /\ attempt = NoAttempt
    /\ result = NoResult
    /\ raised = ""
    /\ exit_status = -1
    /\ cancelled = FALSE
    /\ llm_calls = 0
    /\ handler_calls = 0
    /\ requested = 0

\* run is called: wolf passes images_base64, which run does not accept;
\* otherwise run builds the conversation and enters the loop
RunStart ==
    /\ pc = "Start"
    /\ IF entry = "wolf"
       THEN /\ SetControl(Raise("TypeError"))
            /\ UNCHANGED messages
       ELSE /\ messages' = InitialMessages
            /\ SetControl(LoopHead(0))
    /\ UNCHANGED <<Config, attempt, exit_status, cancelled, llm_calls, handler_calls,
                   requested>>

\* the return passing the error text on as it is
LLMErrorResult_verbatim(text) == RunResult(FALSE, "", text)

\* run, the return for a response with the key "error"
LLMErrorResult(text) == RunResult(FALSE, "", "LLM error: " \o text)

\* the final assistant message appended whatever its content
FinalMessages_always_appended(msgs, text) == Append(msgs, FinalMsg(text))

\* run, the conversation after a final answer
FinalMessages(msgs, text) == IF text # "" THEN Append(msgs, FinalMsg(text)) ELSE msgs

\* one model call and the handling of its response; images are passed on the
\* first iteration only
CallLLM(response) ==
    /\ pc = "AwaitModel"
    /\ ~CallFaults
    /\ requested + Len(extract_tool_calls(response)) <= MaxRequests
    /\ requested' = requested + Len(extract_tool_calls(response))
    /\ llm_calls' = llm_calls + 1
    /\ LET sent == IF images /\ iteration = 0 THEN AttachImages(messages) ELSE messages
       IN  CASE response.kind = "error" ->
                    /\ SetControl(Return(LLMErrorResult(response.content)))
                    /\ messages' = sent
             [] response.kind = "no_choices" ->
                    /\ SetControl(Return(RunResult(FALSE, "", "No response choices from LLM")))
                    /\ messages' = sent
             [] ExtractFaults(response) ->
                    /\ SetControl(ExceptClause(AttributeErrorResult))
                    /\ messages' = sent
             [] OTHER ->
                    LET calls == extract_tool_calls(response)
                    IN  IF calls # <<>>
                        THEN /\ messages' = Append(sent, AssistantMsg(response))
                             /\ SetControl(Control("ProcessToolCalls", 1, iteration, calls,
                                                   NoResult, ""))
                        ELSE /\ messages' = FinalMessages(sent, response.content)
                             /\ SetControl(Return(RunResult(TRUE, response.content, "")))
    /\ attempt' = NoAttempt
    /\ UNCHANGED <<Config, exit_status, cancelled, handler_calls>>

\* _call_llm raises before it reaches an adapter
UnsupportedProvider ==
    /\ pc = "AwaitModel"
    /\ CallFaults
    /\ SetControl(ExceptClause(ValueErrorResult))
    /\ UNCHANGED <<Config, messages, attempt, exit_status, cancelled, llm_calls,
                   handler_calls, requested>>

\* a request without a name stays the current request
SkipCall_same_request ==
    Control("ProcessToolCalls", idx, iteration, tool_calls, NoResult, "")

\* `continue` for a request without a name
SkipCall == NextCall

\* KeyboardInterrupt while the model call blocks
InterruptLLM ==
    /\ pc = "AwaitModel"
    /\ ~CallFaults
    /\ llm_calls' = llm_calls + 1
    /\ cancelled' = TRUE
    /\ SetControl(Raise("KeyboardInterrupt"))
    /\ UNCHANGED <<Config, messages, attempt, exit_status, handler_calls, requested>>

\* the body of `for call in tool_calls` for the request at idx, up to the
\* return of execute or to the prompt it opens
ExecuteTool ==
    /\ pc = "ProcessToolCalls"
    /\ LET call == tool_calls[idx]
           args == OrchestratorArguments(call.arguments)
           gate == GateEnvelope(call.name, args)
           params == DecodedParams(args)
       IN  IF call.name = ""
           THEN /\ SetControl(SkipCall)
                /\ UNCHANGED <<messages, attempt, cancelled, handler_calls>>
           ELSE IF gate # NoEnvelope
           THEN /\ AppendToolResult(call, gate,
                        Attempt(call.name, params, GateStage(gate), "n/a", "no", <<>>,
                                FALSE, FALSE, FALSE))
                /\ UNCHANGED handler_calls
           ELSE LET conf == check_and_confirm(trust_level, call.name,
                                              Registry[call.name].risk_level, params)
                    att == Attempt(call.name, params, "prompt", conf, "no", <<>>,
                                   FALSE, conf = "none", FALSE)
                IN  CASE conf = "none" ->
                            InvokeHandler(call, params, att)
                      [] conf = "block" -> Deny(call, att)
                      [] OTHER ->
                            /\ attempt' = att
                            /\ pc' = "Prompt"
                            /\ UNCHANGED <<idx, iteration, tool_calls, result, raised,
                                           messages, cancelled, handler_calls>>
    /\ UNCHANGED <<Config, exit_status, llm_calls, requested>>

\* prompt_confirmation returns to check_and_confirm, and that to execute
Confirmed(att) ==
    /\ attempt' = att
    /\ pc' = "Confirmed"
    /\ UNCHANGED <<idx, iteration, tool_calls, result, raised, messages, handler_calls>>

\* the user submits text at the open prompt
PromptSubmit(text) ==
    /\ pc = "Prompt"
    /\ IF attempt.conf_type = "yn"
       THEN Confirmed([attempt EXCEPT !.answered = "text", !.answer = text,
                                      !.allowed = YnResponse(text)])
       ELSE IF ~YesValidator(text)
       THEN \* ValidationError: the prompt stays open
            /\ attempt' = [attempt EXCEPT !.rejected = TRUE, !.answer = text]
            /\ UNCHANGED <<pc, idx, iteration, tool_calls, result, raised,
                           messages, handler_calls>>
       ELSE Confirmed([attempt EXCEPT !.answered = "text", !.answer = text,
                                      !.rejected = FALSE,
                                      !.allowed = YesResponse(text)])
    /\ UNCHANGED <<Config, exit_status, llm_calls, requested, cancelled>>

\* KeyboardInterrupt at the open prompt: caught, the confirmation is False
PromptInterrupt ==
    /\ pc = "Prompt"
    /\ Confirmed([attempt EXCEPT !.answered = "interrupt", !.answer = <<>>,
                                 !.rejected = FALSE,
                                 !.allowed = ConfirmationOnAbort(attempt.conf_type)])
    /\ cancelled' = TRUE
    /\ UNCHANGED <<Config, exit_status, llm_calls, requested>>

\* EOFError at the open prompt (no interactive input): caught likewise
PromptEOF ==
    /\ pc = "Prompt"
    /\ Confirmed([attempt EXCEPT !.answered = "eof", !.answer = <<>>,
                                 !.rejected = FALSE,
                                 !.allowed = ConfirmationOnAbort(attempt.conf_type)])
    /\ UNCHANGED <<Config, exit_status, llm_calls, requested, cancelled>>

\* execute goes on after check_and_confirm returned
ResumeExecute ==
    /\ pc = "Confirmed"
    /\ LET att == [attempt EXCEPT !.answer = <<>>]
       IN  IF attempt.allowed
           THEN InvokeHandler(tool_calls[idx], attempt.params, att)
           ELSE Deny(tool_calls[idx], att)
    /\ UNCHANGED <<Config, exit_status, llm_calls, requested>>

\* the command maps what run did to the exit status
CommandExit ==
    /\ pc \in {"Returned", "Raised"}
    /\ entry # "api"
    /\ pc' = "Exited"
    /\ exit_status' = IF pc = "Returned" THEN (IF result.ok THEN 0 ELSE 1)
                      ELSE IF raised = "KeyboardInterrupt" THEN 130 ELSE 1
    /\ UNCHANGED <<Config, iteration, messages, tool_calls, idx, attempt, result,
                   raised, cancelled, llm_calls, handler_calls, requested>>

Next ==
    \/ RunStart
    \/ \E response \in Responses(Vocabulary[vocab]) : CallLLM(response)
    \/ InterruptLLM
    \/ UnsupportedProvider
    \/ ExecuteTool
    \/ \E text \in PromptInputs : PromptSubmit(text)
    \/ PromptInterrupt
    \/ PromptEOF
    \/ ResumeExecute
    \/ CommandExit

Spec == Init /\ [][Next]_vars

\* the open prompt returns to its caller
PromptReturns ==
    \/ \E text \in PromptInputs : PromptSubmit(text) /\ pc' = "Confirmed"
    \/ PromptInterrupt
    \/ PromptEOF

\* every call that run or the command waits for eventually returns: the model
\* call, the handler, and the prompt (which a refused text leaves open)
\* Termination is explored for the vocabularies that open both kinds of prompt
\* (shell_listed), that leave the model call without an adapter (unknown) and
\* that carry a request without a name (malformed).
FairInit == Init /\ vocab \in {"shell_listed", "unknown", "malformed"}

FairSpec == FairInit /\ [][Next]_vars /\ WF_vars(Next) /\ WF_vars(PromptReturns)

(***************************************************************************)
(* One model call on its own, for every shape of the assistant message     *)
(***************************************************************************)
\* legacy calls: with and without an "id" key of their own
LegacyCalls == { Call("", "list_directory", ArgStr("{bad")),
                 Call("fc1", "delete_file", ArgDict(Params(Absent, Str(<<"f">>)))) }

\* assistant messages with every combination of content, structured calls
\* and legacy call
ShapeResponses(calls) ==
    { Response("message", c, q, fc) :
          c \in Contents, q \in SeqsUpTo(calls, MaxBatch),
          fc \in {<<>>} \cup { <<l>> : l \in LegacyCalls } }

\* run has built the conversation and is about to call the model
ExtractInit ==
    /\ entry \in {"wolfw", "api"}
    /\ vocab \in DOMAIN Vocabulary
    /\ trust_level = "interactive"
    /\ max_tool_iterations = 1
    /\ system_prompt \in BOOLEAN
    /\ entry = "wolfw" => system_prompt
    /\ provider = "ollama"
    /\ images = FALSE
    /\ registry_tools = bind_handlers(CoreTools)
    /\ tool_schemas = export_openai_tools(registry_tools)
    /\ registered = FALSE
    /\ looked_up = NoTool
    /\ pc = "AwaitModel"
    /\ iteration = 0
    /\ messages = InitialMessages
    /\ tool_calls = <<>>
    /\ idx = 0
    /\ attempt = NoAttempt
    /\ result = NoResult
    /\ raised = ""
    /\ exit_status = -1
    /\ cancelled = FALSE
    /\ llm_calls = 0
    /\ handler_calls = 0
    /\ requested = 0

ExtractNext == \E response \in ShapeResponses(Vocabulary[vocab]) : CallLLM(response)

ExtractSpec == ExtractInit /\ [][ExtractNext]_vars

(***************************************************************************)
(* The tool registry on its own: any caller registers, looks up, exports   *)
(* and binds handlers in any order                                         *)
(***************************************************************************)
RunState == <<entry, vocab, trust_level, max_tool_iterations, system_prompt, provider,
              images, pc, iteration, messages, tool_calls, idx, attempt, result, raised,
              exit_status, cancelled, llm_calls, handler_calls, requested>>

\* the registry right after ToolRegistry.__init__, before any export
RegistryInit ==
    /\ entry = "api"
    /\ vocab = "risk"
    /\ trust_level = "interactive"
    /\ max_tool_iterations = 0
    /\ system_prompt = FALSE
    /\ provider = "ollama"
    /\ images = FALSE
    /\ pc = "Start"
    /\ iteration = 0
    /\ messages = <<>>
    /\ tool_calls = <<>>
    /\ idx = 0
    /\ attempt = NoAttempt
    /\ result = NoResult
    /\ raised = ""
    /\ exit_status = -1
    /\ cancelled = FALSE
    /\ llm_calls = 0
    /\ handler_calls = 0
    /\ requested = 0
    /\ registry_tools = CoreTools
    /\ tool_schemas = <<>>
    /\ registered = TRUE
    /\ looked_up = NoTool

Register(tool) ==
    /\ registry_tools' = register(registry_tools, tool)
    /\ registered' = TRUE
    /\ UNCHANGED <<tool_schemas, looked_up, RunState>>

Get(name) ==
    /\ looked_up' = get(registry_tools, name)
    /\ UNCHANGED <<registry_tools, tool_schemas, registered, RunState>>

ExportOpenAITools ==
    /\ tool_schemas' = export_openai_tools(registry_tools)
    /\ registered' = FALSE
    /\ UNCHANGED <<registry_tools, looked_up, RunState>>

\* a ToolExecutor is constructed
BindHandlers ==
    /\ registry_tools' = bind_handlers(registry_tools)
    /\ UNCHANGED <<tool_schemas, registered, looked_up, RunState>>

ToolNames == {"delete_file", "list_directory", "plugin_tool", "no_such_tool"}

RegistryNext ==
    \/ \E tool \in RegisteredLater : Register(tool)
    \/ \E name \in ToolNames : Get(name)
    \/ ExportOpenAITools
    \/ BindHandlers

RegistrySpec == RegistryInit /\ [][RegistryNext]_vars

(***************************************************************************)
(* Properties                                                              *)
(***************************************************************************)
\* the execute call of `attempt` reached the permission check
ReachedPermissionCheck ==
    attempt.stage \in {"prompt", "denied", "returned", "raised", "interrupted"}

\* the execute call of `attempt` is execute_command with a deny-listed text
DenylistedCommand ==
    /\ attempt.tool = "execute_command"
    /\ attempt.params["command"].t = "str"
    /\ MatchesDenylist(attempt.params["command"].v)

\* the typed text, trimmed and lower-cased
TypedLower == StrLower(Strip(attempt.answer))

\* C1: for every trust level, an execute_command call whose command text
\* matches the deny list gets the Strong confirmation type; it is allowed, and
\* its handler invoked, only after that prompt was answered with text, and the
\* text that allows it is the confirmation phrase. This holds as well when the
\* command also matches the allow list.
C1_DenylistNeedsStrongConfirmation ==
    (ReachedPermissionCheck /\ DenylistedCommand) =>
        /\ attempt.conf_type = "yes"
        /\ attempt.allowed => attempt.answered = "text"
        /\ attempt.invoked => (attempt.allowed /\ attempt.answered = "text")
        /\ (pc = "Confirmed" /\ attempt.allowed) => TypedLower = <<"y", "e", "s">>

\* under Auto trust, a command in both lists ran after the Strong prompt
C1_Witness ==
    /\ trust_level = "auto"
    /\ DenylistedCommand
    /\ MatchesAllowlist(attempt.params["command"].v)
    /\ attempt.conf_type = "yes"
    /\ attempt.answered = "text"
    /\ attempt.invoked

\* C2: under SafeOnly trust every call of a tool whose risk level is not Safe
\* (execute_command with any text included) is Blocked: no prompt is opened,
\* the handler is not invoked, and the tool message carries the
\* permission-denied error.
C2_SafeOnlyBlocksUnsafeTools ==
    (/\ trust_level = "safe-only"
     /\ ReachedPermissionCheck
     /\ Registry[attempt.tool].risk_level # "safe") =>
        /\ attempt.conf_type = "block"
        /\ pc \notin {"Prompt", "Confirmed"}
        /\ attempt.answered = "no"
        /\ ~attempt.invoked
        /\ attempt.stage = "denied"
        /\ messages[Len(messages)].role = "tool"
        /\ messages[Len(messages)].env.error = "Permission denied by user"

\* the run goes on after the tool message: to the next request, to the next
\* model call, or to the end of the loop when the iterations are used up
RunGoesOn ==
    \/ pc \in {"ProcessToolCalls", "AwaitModel"}
    \/ pc \in {"Returned", "Exited"} /\ result = MaxIterationsResult

\* C3: under Auto trust every call that is not a deny-listed execute_command
\* is allowed without a prompt whatever the risk level; when the handler
\* returns, one tool message is appended and the loop goes on.
C3_AutoAllowsWithoutPrompt ==
    (/\ trust_level = "auto"
     /\ ReachedPermissionCheck
     /\ ~DenylistedCommand) =>
        /\ attempt.conf_type = "none"
        /\ attempt.answered = "no"
        /\ attempt.allowed
        /\ attempt.stage \in {"returned", "raised"} =>
              /\ messages[Len(messages)].role = "tool"
              /\ messages[Len(messages)].name = attempt.tool
              /\ RunGoesOn

\* C4: under Interactive trust, for a call that is not a deny-listed command,
\* the confirmation type follows from the risk level alone: Safe none,
\* Modifying the yes/no prompt, Destructive the typed-phrase prompt.
C4_InteractiveFollowsRiskLevel ==
    (/\ trust_level = "interactive"
     /\ ReachedPermissionCheck
     /\ ~DenylistedCommand) =>
        LET risk == Registry[attempt.tool].risk_level
        IN  /\ risk = "safe" => (attempt.conf_type = "none" /\ attempt.allowed)
            /\ risk = "modifying" => attempt.conf_type = "yn"
            /\ risk = "destructive" => attempt.conf_type = "yes"
            /\ attempt.invoked /\ risk # "safe" => attempt.answered = "text"

\* the Strong prompt is open for the destructive tool
C4_Witness ==
    /\ trust_level = "interactive"
    /\ pc = "Prompt"
    /\ attempt.tool = "delete_file"
    /\ attempt.conf_type = "yes"

\* C5: for execute_command calls whose text is not deny-listed, the
\* confirmation type is decided by the trust level and the outcome by the
\* answer, the same whether or not the text matches the allow list; an
\* allow-list match never allows a call that is blocked or needs an answer.
C5_AllowlistIsAdvisory ==
    (/\ attempt.tool = "execute_command"
     /\ ReachedPermissionCheck
     /\ ~DenylistedCommand) =>
        /\ attempt.conf_type = CASE trust_level = "auto" -> "none"
                                 [] trust_level = "interactive" -> "yn"
                                 [] OTHER -> "block"
        /\ attempt.conf_type = "block" => (~attempt.allowed /\ ~attempt.invoked)
        /\ attempt.conf_type = "yn" /\ attempt.invoked => attempt.answered = "text"
        /\ (pc = "Confirmed" /\ attempt.answered = "text") =>
              attempt.allowed = (TypedLower \in {<<"y">>, <<"y", "e", "s">>, <<>>})

\* an allow-listed command waits at the yes/no prompt
C5_Witness ==
    /\ trust_level = "interactive"
    /\ pc = "Prompt"
    /\ attempt.tool = "execute_command"
    /\ MatchesAllowlist(attempt.params["command"].v)
    /\ ~DenylistedCommand
    /\ attempt.conf_type = "yn"

\* C6: at the Strong prompt a submitted text is accepted (the confirmation
\* is Allowed) exactly when it equals YES compared case-insensitively.
C6_StrongPhraseCaseInsensitive ==
    (/\ attempt.conf_type = "yes"
     /\ pc \in {"Prompt", "Confirmed"}
     /\ attempt.rejected \/ attempt.answered = "text") =>
        ((pc = "Confirmed" /\ attempt.allowed) <=> TypedLower = <<"y", "e", "s">>)

\* C7 as stated: at the Simple prompt every text other than n / no is
\* treated as acceptance.
C7_SimpleAcceptsAllButNegative ==
    (/\ attempt.conf_type = "yn"
     /\ pc = "Confirmed"
     /\ attempt.answered = "text") =>
        (attempt.allowed <=> TypedLower \notin {<<"n">>, <<"n", "o">>})

\* C7 amended: at the Simple prompt a text is treated as acceptance exactly
\* when, trimmed and lower-cased, it is y, yes or empty; every other text,
\* n and no included, resolves to Denied and the handler is not invoked.
C7_SimpleAcceptsYesOrEmpty ==
    /\ (/\ attempt.conf_type = "yn"
        /\ pc = "Confirmed"
        /\ attempt.answered = "text") =>
           (attempt.allowed <=> TypedLower \in {<<"y">>, <<"y", "e", "s">>, <<>>})
    /\ (attempt.conf_type = "yn" /\ attempt.invoked) => attempt.allowed

\* a text that is neither a yes nor a no was submitted and refused
C7_Witness ==
    /\ attempt.conf_type = "yn"
    /\ pc = "Confirmed"
    /\ attempt.answered = "text"
    /\ attempt.answer = <<"o", "k">>
    /\ ~attempt.allowed

\* C8: a KeyboardInterrupt or the end of input at a Simple or Strong prompt
\* resolves the confirmation to Denied: the handler of that call is not
\* invoked and the call yields the permission-denied envelope.
C8_AbortAtPromptDenies ==
    attempt.answered \in {"interrupt", "eof"} =>
        /\ attempt.conf_type \in {"yn", "yes"}
        /\ ~attempt.allowed
        /\ ~attempt.invoked
        /\ attempt.stage \in {"prompt", "denied"}
        /\ attempt.stage = "prompt" => pc = "Confirmed"
        /\ attempt.stage = "denied" =>
              /\ messages[Len(messages)].role = "tool"
              /\ messages[Len(messages)].name = attempt.tool
              /\ ~messages[Len(messages)].env.ok
              /\ messages[Len(messages)].env.error = "Permission denied by user"

\* the end of input at the Simple prompt ended in the denied envelope
C8_Witness ==
    /\ attempt.answered = "eof"
    /\ attempt.conf_type = "yn"
    /\ attempt.stage = "denied"
    /\ messages[Len(messages)].env.error = "Permission denied by user"

\* C9: once a KeyboardInterrupt was delivered, at a prompt or elsewhere, no
\* further model call is made, no further handler is invoked, and the
\* command exits with status 130.
C9_CancellationIsTerminal ==
    [][cancelled =>
          /\ llm_calls' = llm_calls
          /\ handler_calls' = handler_calls
          /\ pc' = "Exited" => exit_status' = 130]_vars

\* an earlier tool message of the run reports a handler that ran for `tool`
ApprovedBefore(tool) ==
    \E i \in 1..Len(messages) :
        /\ messages[i].role = "tool"
        /\ messages[i].name = tool
        /\ messages[i].env.has_result

\* C10: whatever was approved or denied earlier in the run, a call that needs
\* a confirmation opens its own prompt, and whether it is allowed follows from
\* the trust level, the risk level, the command text and the answer to that
\* prompt alone.
C10_ConfirmationNotPersisted ==
    ReachedPermissionCheck =>
        LET risk == Registry[attempt.tool].risk_level
            expected ==
                IF DenylistedCommand THEN "yes"
                ELSE IF trust_level = "safe-only" /\ risk # "safe" THEN "block"
                ELSE IF trust_level = "auto" \/ risk = "safe" THEN "none"
                ELSE IF risk = "modifying" THEN "yn"
                ELSE "yes"
        IN  /\ attempt.conf_type = expected
            /\ (expected \in {"yn", "yes"} /\ attempt.invoked) => attempt.answered = "text"
            /\ (expected \in {"yn", "yes"} /\ attempt.stage = "denied") => attempt.answered # "no"
            /\ expected = "none" => attempt.allowed
            /\ expected = "block" => ~attempt.allowed
            /\ (pc = "Confirmed" /\ attempt.answered = "text" /\ expected = "yn") =>
                  attempt.allowed = (TypedLower \in {<<"y">>, <<"y", "e", "s">>, <<>>})
            /\ (pc = "Confirmed" /\ attempt.answered = "text" /\ expected = "yes") =>
                  attempt.allowed = (Strip(attempt.answer) \in
                      {<<"Y", "E", "S">>, <<"y", "e", "s">>, <<"Y", "e", "s">>})
            /\ (pc = "Confirmed" /\ attempt.answered # "text") => ~attempt.allowed

\* the prompt opens again for a tool that was approved earlier in the run
C10_Witness ==
    /\ pc = "Prompt"
    /\ attempt.conf_type \in {"yn", "yes"}
    /\ ApprovedBefore(attempt.tool)

\* the request the loop body is about to process has a name
ProcessingNamedCall == pc = "ProcessToolCalls" /\ tool_calls[idx].name # ""

\* the first gate of execute that the request fails, "none" when it passes the
\* lookup, the decoding, the mapping test and the schema validation
FirstFailingGate(call) ==
    LET args == OrchestratorArguments(call.arguments)
        decodable == args.tag # "str" \/ Blank(args.raw) \/ JsonLoads(args.raw).ok
        decoded == IF args.tag # "str" THEN args
                   ELSE IF Blank(args.raw) THEN ArgDict(NoParams)
                   ELSE JsonLoads(args.raw).value
    IN  IF call.name \notin DOMAIN Registry THEN "unknown_tool"
        ELSE IF ~decodable THEN "bad_json"
        ELSE IF decoded.tag # "dict" THEN "not_dict"
        ELSE IF ~validate_tool_params(decoded.dict, call.name).is_valid THEN "invalid"
        ELSE "none"

\* the error each gate reports
GateError(stage) ==
    CASE stage = "unknown_tool" -> "Unknown tool"
      [] stage = "bad_json" -> "Invalid JSON arguments"
      [] stage = "not_dict" -> "Parameters must be a dict"
      [] OTHER -> "Invalid parameters"

\* the step appends one tool message for `call` whose envelope has ok = false
\* and the error `error`
AppendsFailure(call, error) ==
    /\ Len(messages') = Len(messages) + 1
    /\ SubSeq(messages', 1, Len(messages)) = messages
    /\ LET m == messages'[Len(messages')]
       IN  /\ m.role = "tool"
           /\ m.name = call.name
           /\ m.tool_call_id = call.id
           /\ m.env.tool = call.name
           /\ ~m.env.ok
           /\ ~m.env.has_result
           /\ m.env.error = error

\* after the step the run goes on: to the next request of the batch, or, after
\* the last one, to the next iteration of the loop (which ends the run with the
\* iteration-exhaustion result when no iteration is left)
StepGoesOn ==
    IF idx < Len(tool_calls)
    THEN pc' = "ProcessToolCalls" /\ idx' = idx + 1 /\ tool_calls' = tool_calls
    ELSE IF iteration + 1 < max_tool_iterations
    THEN pc' = "AwaitModel" /\ iteration' = iteration + 1
    ELSE pc' = "Returned" /\ result' = MaxIterationsResult

\* C11: execute applies its gates in the order lookup, decoding, mapping test,
\* schema validation, permission check. A request that fails one of the first
\* four gets the error of the first gate it fails, with no prompt and no
\* handler invocation; a handler is invoked only for a request that passed all
\* of them and was allowed; a denied or blocked request gets the
\* permission-denied envelope and its handler is not invoked.
C11_GatesBeforeHandler ==
    [][/\ ProcessingNamedCall =>
             LET call == tool_calls[idx]
                 gate == FirstFailingGate(call)
             IN  /\ gate # "none" =>
                        /\ attempt'.stage = gate
                        /\ attempt'.conf_type = "n/a"
                        /\ pc' # "Prompt"
                        /\ handler_calls' = handler_calls
                        /\ AppendsFailure(call, GateError(gate))
                 /\ gate = "none" =>
                        attempt'.stage \in {"prompt", "denied", "returned", "raised",
                                            "interrupted"}
                 /\ handler_calls' # handler_calls =>
                        (gate = "none" /\ attempt'.conf_type = "none")
       /\ handler_calls' # handler_calls =>
             /\ pc \in {"ProcessToolCalls", "Confirmed"}
             /\ attempt'.allowed
             /\ attempt'.invoked
             /\ pc = "Confirmed" => attempt.allowed
       /\ (attempt'.stage = "denied" /\ Len(messages') # Len(messages)) =>
             /\ ~attempt'.allowed
             /\ ~attempt'.invoked
             /\ handler_calls' = handler_calls
             /\ AppendsFailure(tool_calls[idx], "Permission denied by user")]_vars

\* a request that is both missing its required parameter and made under
\* safe-only trust was refused by the validation, not by the permission check
C11_Witness ==
    /\ trust_level = "safe-only"
    /\ attempt.tool = "delete_file"
    /\ attempt.stage = "invalid"
    /\ handler_calls = 0
    /\ messages[Len(messages)].env.error = "Invalid parameters"

\* C12: when the handler raises an exception, execute returns an envelope with
\* ok = false and the exception's message as error; the envelope is appended as
\* the tool message of the request and the run goes on to the next request or
\* the next model call.
C12_HandlerFaultIsIsolated ==
    [][(attempt'.stage = "raised" /\ handler_calls' # handler_calls) =>
          /\ AppendsFailure(tool_calls[idx], "handler error")
          /\ messages'[Len(messages')].env.has_input
          /\ raised' = ""
          /\ StepGoesOn]_vars

\* after a handler raised, the loop waits for the next model response
C12_Witness ==
    /\ attempt.stage = "raised"
    /\ pc = "AwaitModel"
    /\ messages[Len(messages)].env.error = "handler error"

\* C13: a request that names a tool the registry does not have gets the
\* envelope ok = false with the unknown-tool error naming it, appended as its
\* tool message; no handler runs, the remaining requests of the batch are
\* processed next, in order, and after the batch the loop goes on.
C13_UnknownToolDoesNotAbort ==
    [][(ProcessingNamedCall /\ tool_calls[idx].name \notin DOMAIN Registry) =>
          /\ AppendsFailure(tool_calls[idx], "Unknown tool")
          /\ ~messages'[Len(messages')].env.has_input
          /\ handler_calls' = handler_calls
          /\ StepGoesOn]_vars

\* the request after an unknown tool in the same batch was executed
C13_Witness ==
    \E i \in 1..(Len(messages) - 1) :
        /\ messages[i].role = "tool"
        /\ messages[i].env.error = "Unknown tool"
        /\ messages[i + 1].role = "tool"
        /\ messages[i + 1].env.has_result

\* C14: a request whose arguments are a string that is not valid JSON gets
\* a tool message with ok = false and the parse error, its handler is not
\* invoked, and the run goes on.
C14_UndecodableArgumentsAreReported ==
    [][(/\ ProcessingNamedCall
        /\ tool_calls[idx].arguments.tag = "str"
        /\ ~Blank(tool_calls[idx].arguments.raw)
        /\ ~JsonLoads(tool_calls[idx].arguments.raw).ok) =>
          /\ handler_calls' = handler_calls
          /\ AppendsFailure(tool_calls[idx], "Invalid JSON arguments")
          /\ StepGoesOn]_vars

\* the requests an assistant message carries: its structured calls, or else
\* its legacy single call
Requests(m) == IF m.tool_calls # <<>> THEN m.tool_calls ELSE m.function_call

\* an assistant message that requests tools
IsTurn(m) == m.role = "assistant" /\ Requests(m) # <<>>

HasTurn == \E i \in 1..Len(messages) : IsTurn(messages[i])

\* position of the latest assistant message that requests tools
LastTurn ==
    CHOOSE i \in 1..Len(messages) :
        /\ IsTurn(messages[i])
        /\ \A j \in (i + 1)..Len(messages) : ~IsTurn(messages[j])

\* the messages appended since that assistant message
TurnResults == SubSeq(messages, LastTurn + 1, Len(messages))

\* correlation id and name of the tool messages appended in the turn, in order
ResultRefs ==
    [k \in 1..Len(TurnResults) |->
        [id |-> TurnResults[k].tool_call_id, name |-> TurnResults[k].name]]

Named(r) == r.name # ""

C16_OneToolMessagePerRequest ==
    (pc = "AwaitModel" /\ HasTurn) =>
        /\ Len(TurnResults) = Len(Requests(messages[LastTurn]))
        /\ \A k \in 1..Len(TurnResults) :
              /\ TurnResults[k].role = "tool"
              /\ TurnResults[k].env # NoEnvelope
              /\ TurnResults[k].tool_call_id = Requests(messages[LastTurn])[k].id

\* C17: every tool message follows, with only tool messages in between, an
\* assistant message that carries requests, one of which has the tool
\* message's name and, when the tool message has a correlation id, that id.
C17_ToolMessageFollowsItsRequest ==
    \A i \in 1..Len(messages) :
        messages[i].role = "tool" =>
            \E j \in 1..(i - 1) :
                /\ IsTurn(messages[j])
                /\ \A k \in (j + 1)..(i - 1) : messages[k].role = "tool"
                /\ \E n \in 1..Len(Requests(messages[j])) :
                      /\ Requests(messages[j])[n].name = messages[i].name
                      /\ messages[i].tool_call_id # "" =>
                            Requests(messages[j])[n].id = messages[i].tool_call_id

\* the tool message of the second request of a batch follows another tool
\* message
C17_Witness ==
    \E i \in 2..Len(messages) :
        /\ messages[i].role = "tool"
        /\ messages[i - 1].role = "tool"
        /\ messages[i].tool_call_id = "c2"

\* C18: no step of the run changes or removes a message that is already in the
\* conversation: the conversation before a step is a prefix of the
\* conversation after it.
C18_MessagesAppendOnly ==
    [][/\ Len(messages') >= Len(messages)
       /\ SubSeq(messages', 1, Len(messages)) = messages]_vars

\* the responses that are a message without structured calls and without
\* legacy call
FinalAnswers == { Response("message", c, <<>>, <<>>) : c \in Contents }

\* the responses that carry an error
ErrorResponses == { Response("error", e, <<>>, <<>>) : e \in ErrorTexts }

\* C19: a model response without requests ends the run with ok = true and
\* text equal to the response's content; one assistant message with that
\* content is appended when the content is not empty, and nothing is appended
\* when it is empty. With a system prompt and such a first response with
\* content, the conversation is system, user, assistant after one model call.
C19_FinalAnswerEndsRun ==
    [][\A response \in FinalAnswers :
          (pc = "AwaitModel" /\ CallLLM(response)) =>
              /\ pc' = "Returned"
              /\ result' = RunResult(TRUE, response.content, "")
              /\ llm_calls' = llm_calls + 1
              /\ IF response.content # ""
                 THEN /\ Len(messages') = Len(messages) + 1
                      /\ messages'[Len(messages')].role = "assistant"
                      /\ messages'[Len(messages')].content = response.content
                      /\ Requests(messages'[Len(messages')]) = <<>>
                 ELSE Len(messages') = Len(messages)
              /\ (system_prompt /\ llm_calls = 0 /\ response.content # "") =>
                    /\ Len(messages') = 3
                    /\ messages'[1].role = "system"
                    /\ messages'[2].role = "user"
                    /\ messages'[3].role = "assistant"]_vars

\* the first response was a final answer with content
C19_Witness ==
    /\ pc = "Returned"
    /\ result.ok
    /\ result.text = "answer"
    /\ system_prompt
    /\ llm_calls = 1
    /\ Len(messages) = 3

\* C20 as stated: a response with an error ends the run with ok = false and
\* error equal to the adapter's error text; nothing is appended, no tool runs
\* and the model is not called again.
C20_TransportErrorVerbatim ==
    [][/\ \A response \in ErrorResponses :
             (pc = "AwaitModel" /\ CallLLM(response)) =>
                 /\ pc' = "Returned"
                 /\ ~result'.ok
                 /\ result'.error = response.content
                 /\ Len(messages') = Len(messages)
                 /\ handler_calls' = handler_calls
       /\ pc = "Returned" =>
             /\ llm_calls' = llm_calls
             /\ handler_calls' = handler_calls
             /\ messages' = messages]_vars

\* C20 amended: a response with an error ends the run with ok = false and
\* error equal to "LLM error: " followed by the adapter's error text; nothing
\* is appended, no tool runs and the model is not called again.
C20_TransportErrorPrefixed ==
    [][/\ \A response \in ErrorResponses :
             (pc = "AwaitModel" /\ CallLLM(response)) =>
                 /\ pc' = "Returned"
                 /\ result' = RunResult(FALSE, "", "LLM error: " \o response.content)
                 /\ Len(messages') = Len(messages)
                 /\ handler_calls' = handler_calls
       /\ pc = "Returned" =>
             /\ llm_calls' = llm_calls
             /\ handler_calls' = handler_calls
             /\ messages' = messages]_vars

\* the second model call of a run failed, after a tool was executed
C20_Witness ==
    /\ pc = "Returned"
    /\ result.error = "LLM error: Connection refused"
    /\ llm_calls = 2
    /\ handler_calls = 1

\* the conversation without the key the adapter sets on the user message
WithoutImages(msgs) == [i \in 1..Len(msgs) |-> [msgs[i] EXCEPT !.images = FALSE]]

\* the step appends the tool message of a request whose envelope makes the
\* unknown-tool test of the loop body raise
StepFaultsAfterToolMessage ==
    /\ pc \in {"ProcessToolCalls", "Confirmed"}
    /\ Len(messages') = Len(messages) + 1
    /\ UnknownToolCheckFaults(messages'[Len(messages')].env)

\* C21: a fault raised in a loop iteration outside the executor's handler
\* isolation (the model call for a provider without adapter, the extraction of
\* the calls from a malformed message, the unknown-tool test after a tool
\* message) does not leave run: run returns ok = false with the exception's
\* message as error, and the conversation is the one accumulated up to the
\* fault. Only a KeyboardInterrupt leaves a run that entered its loop.
C21_FaultBecomesFailed ==
    [][/\ (pc = "AwaitModel" /\ CallFaults) =>
             /\ pc' = "Returned"
             /\ raised' = ""
             /\ result' = RunResult(FALSE, "", "Unsupported provider: " \o provider)
             /\ messages' = messages
             /\ llm_calls' = llm_calls
       /\ (pc = "AwaitModel" /\ CallLLM(MalformedResponse)) =>
             /\ pc' = "Returned"
             /\ raised' = ""
             /\ result' = RunResult(FALSE, "", "'str' object has no attribute 'get'")
             /\ WithoutImages(messages') = WithoutImages(messages)
       /\ StepFaultsAfterToolMessage =>
             /\ pc' = "Returned"
             /\ raised' = ""
             /\ result' = RunResult(FALSE, "", "argument of type 'NoneType' is not iterable")
             /\ SubSeq(messages', 1, Len(messages)) = messages
             /\ messages'[Len(messages')].role = "tool"
       /\ (pc # "Start" /\ pc' = "Raised") => raised' = "KeyboardInterrupt"]_vars

\* a run ended in the except clause after a tool message was appended
C21_Witness ==
    /\ pc = "Returned"
    /\ result = TypeErrorResult
    /\ raised = ""
    /\ Len(messages) >= 3
    /\ messages[Len(messages)].role = "tool"
    /\ messages[Len(messages)].env.error = "None"

\* number of assistant messages of the conversation that request tools
NumTurns == Cardinality({ i \in 1..Len(messages) : IsTurn(messages[i]) })

\* run returned, and every model call of the run was answered by a response
\* that requests tools
ReturnedAfterToolTurnsOnly ==
    /\ pc \in {"Returned", "Exited"}
    /\ raised = ""
    /\ provider = "ollama"
    /\ NumTurns = llm_calls

\* C22: the model adapter is called at most max_tool_iterations times, never
\* when that is 0. A run in which every response requests tools makes exactly
\* max_tool_iterations model calls, processes the requests of all those
\* rounds, and returns ok = false with the error that mentions the maximum and
\* "iterations"; with a maximum of 0 the conversation is the initial one.
C22_IterationBound ==
    /\ llm_calls <= max_tool_iterations
    /\ ReturnedAfterToolTurnsOnly =>
          /\ llm_calls = max_tool_iterations
          /\ ~result.ok
          /\ result.error = "Max tool iterations (" \o ToString(max_tool_iterations)
                                \o ") reached without final answer"
          /\ max_tool_iterations = 0 => WithoutImages(messages) = InitialMessages

\* the step appends a tool message whose envelope has ok = false
AppendsFailedEnvelope ==
    /\ Len(messages') = Len(messages) + 1
    /\ messages'[Len(messages')].role = "tool"
    /\ ~messages'[Len(messages')].env.ok

\* C23: a run returns ok = false only from a model call that returned an
\* error or no choices, from the end of the loop when the iterations are used
\* up, or from a fault caught by the loop. An envelope with ok = false never
\* ends the run: the step that appends it as a tool message goes on to the
\* next request or to the next iteration.
C23_FailedEnvelopeDoesNotEndRun ==
    [][/\ (pc # "Returned" /\ pc' = "Returned" /\ ~result'.ok) =>
             \/ pc = "AwaitModel" /\ result'.error \in
                    { "LLM error: " \o e : e \in ErrorTexts }
                    \cup { "No response choices from LLM",
                           AttributeErrorResult.error, ValueErrorResult.error }
             \/ result' = MaxIterationsResult
             \/ result' = TypeErrorResult
       /\ AppendsFailedEnvelope =>
             /\ pc' # "Returned" \/ result' = MaxIterationsResult
             /\ StepGoesOn]_vars

\* C24: every value run returns has the keys ok and messages; with ok = true
\* it has text and no error, with ok = false error and no text. The returned
\* conversation begins with the system message, when one is configured, and
\* the user message; everything after them is an assistant or a tool message;
\* the return drops none of the messages accumulated before it, and nothing
\* changes after it.
C24_ResultShape ==
    [][/\ (pc # "Returned" /\ pc' = "Returned") =>
             /\ {"ok", "messages"} \subseteq result'.keys
             /\ result'.ok => ("text" \in result'.keys /\ "error" \notin result'.keys)
             /\ ~result'.ok =>
                   /\ "error" \in result'.keys
                   /\ "text" \notin result'.keys
                   /\ result'.error # ""
             /\ Len(messages') >= Len(InitialMessages)
             /\ SubSeq(WithoutImages(messages'), 1, Len(InitialMessages)) = InitialMessages
             /\ \A i \in (Len(InitialMessages) + 1)..Len(messages') :
                   messages'[i].role \in {"assistant", "tool"}
             /\ Len(messages') >= Len(messages)
             /\ SubSeq(WithoutImages(messages'), 1, Len(messages)) = WithoutImages(messages)
             /\ (result'.ok /\ result'.text # "") =>
                   /\ messages'[Len(messages')].role = "assistant"
                   /\ messages'[Len(messages')].content = result'.text
       /\ pc = "Returned" => (messages' = messages /\ result' = result)]_vars

\* a run with a system prompt returned its final answer after a tool round
C24_Witness ==
    /\ pc = "Returned"
    /\ result.ok
    /\ result.keys = {"ok", "text", "messages"}
    /\ system_prompt
    /\ Len(messages) >= 5
    /\ messages[1].role = "system"
    /\ messages[2].role = "user"
    /\ messages[4].role = "tool"
    /\ messages[Len(messages)].content = result.text

\* C25: an export with no register call since the previous export returns
\* what the previous export returned: the same entries in the same order, with
\* the same name, description and parameter schema. Exports, lookups and the
\* binding of handlers in between do not change what the next export returns.
C25_ExportIsIdempotent ==
    [][~registered' =>
          /\ export_openai_tools(registry_tools') = tool_schemas'
          /\ ~registered => tool_schemas' = tool_schemas
          /\ Len(tool_schemas') = Len(registry_tools')
          /\ \A i \in 1..Len(tool_schemas') :
                /\ tool_schemas'[i].name = registry_tools'[i].name
                /\ tool_schemas'[i].description = registry_tools'[i].description
                /\ tool_schemas'[i].parameters = registry_tools'[i].parameters]_vars

\* after an export, a handler was bound and a tool looked up; the export
\* still lists the replaced core tool and the new tool
C25_Witness ==
    /\ ~registered
    /\ Len(tool_schemas) = 5
    /\ tool_schemas[2].description = "v2"
    /\ registry_tools[1].handler = "bound"
    /\ registry_tools[2].handler = "plugin"
    /\ looked_up.name = "plugin_tool"

\* C26: a call of run that enters the body of run ends: when every model
\* call, every prompt and every handler eventually returns, run returns, with
\* its final answer or with ok = false, for every sequence of model responses,
\* those that request tools every time included. A call that does not return
\* because a KeyboardInterrupt is delivered ends run with that exception.
C26_RunTerminates ==
    (pc = "Start" /\ entry # "wolf") ~> (pc = "Returned" \/ raised = "KeyboardInterrupt")

\* the model requested tools in each of two rounds and run returned when the
\* iterations were used up
C26_Witness ==
    /\ pc = "Returned"
    /\ max_tool_iterations >= 2
    /\ llm_calls = max_tool_iterations
    /\ NumTurns = llm_calls
    /\ result = MaxIterationsResult

\* C27: a response is taken as the final answer exactly when it has neither a
\* non-empty list of structured calls nor a non-empty legacy call. With a
\* non-empty list, the requests are the entries of the list in their order and
\* a legacy call is ignored; with no list or an empty one, a non-empty legacy
\* call gives one request, with its name and arguments and no correlation id.
C27_ExtractionShapes ==
    [][\A response \in ShapeResponses(Vocabulary[vocab]) :
          (pc = "AwaitModel" /\ CallLLM(response)) =>
              LET structured == response.tool_calls
                  legacy == response.function_call
              IN  /\ (pc' = "Returned") <=> (structured = <<>> /\ legacy = <<>>)
                  /\ pc' = "Returned" =>
                        (result'.ok /\ result'.text = response.content)
                  /\ pc' # "Returned" => (pc' = "ProcessToolCalls" /\ idx' = 1)
                  /\ structured # <<>> => tool_calls' = structured
                  /\ (structured = <<>> /\ legacy # <<>>) =>
                        /\ Len(tool_calls') = 1
                        /\ tool_calls'[1].id = ""
                        /\ tool_calls'[1].name = legacy[1].name
                        /\ tool_calls'[1].arguments = legacy[1].arguments]_vars

\* a message with two structured calls and a legacy call: the two structured
\* calls are the requests
C27_Witness ==
    /\ pc = "ProcessToolCalls"
    /\ Len(tool_calls) = 2
    /\ messages[Len(messages)].function_call # <<>>
    /\ Refs(tool_calls) = messages[Len(messages)].tool_calls
    /\ tool_calls[1] # tool_calls[2]

\* every key the handler's dictionary declares is in the stored dictionary
\* with the same value
PayloadWithin(p, r) ==
    /\ p.has_ok => (r.has_ok /\ r.ok = p.ok)
    /\ r.has_success = p.has_success
    /\ r.success = p.success
    /\ r.error = p.error

\* C28: when the handler returns, the envelope's result is what the handler
\* returned; its ok is the payload's ok when it declares one, else its success
\* when it declares one, else true; a payload that declares ok = false or
\* success = false never gives an envelope with ok = true; and an envelope with
\* ok = true never carries an error.
C28_EnvelopeOfReturnedPayload ==
    [][(attempt'.stage = "returned" /\ handler_calls' # handler_calls) =>
          LET env == messages'[Len(messages')].env
          IN  /\ env.has_result
              /\ \E o \in HandlerOutcomes(attempt'.tool) :
                    /\ o.kind = "return"
                    /\ PayloadWithin(o.payload, env.result)
                    /\ env.ok = (IF o.payload.has_ok THEN o.payload.ok
                                 ELSE IF o.payload.has_success THEN o.payload.success
                                 ELSE TRUE)
                    /\ ((o.payload.has_ok /\ ~o.payload.ok)
                        \/ (o.payload.has_success /\ ~o.payload.success)) => ~env.ok
              /\ env.ok => env.error = "None"]_vars

\* C29: the text checked against the deny list is the text that is executed:
\* whenever the handler of execute_command was invoked with a text that, as
\* the shell client hands it to the shell (NUL characters removed, surrounding
\* whitespace trimmed), matches the deny list, the call went through the
\* Strong prompt and was answered there; under Auto trust no such text runs
\* without a prompt.
C29_ExecutedTextWasChecked ==
    (/\ attempt.tool = "execute_command"
     /\ attempt.invoked
     /\ MatchesDenylist(ShellCommand(attempt.params))) =>
        /\ attempt.conf_type = "yes"
        /\ attempt.answered = "text"

\* C30: the wolf command, called with a prompt, runs the loop through
\* Orchestrator.run and maps what run returned to its exit status: 0 exactly
\* when run returned ok = true, 1 when it returned ok = false. (A
\* KeyboardInterrupt ends the command with 130 instead.)
C30_WolfMapsRunResult ==
    (entry = "wolf" /\ pc = "Exited" /\ ~cancelled) =>
        /\ raised = ""
        /\ result # NoResult
        /\ llm_calls <= max_tool_iterations
        /\ (exit_status = 0) <=> result.ok
        /\ ~result.ok => exit_status = 1

====
